---------------------------- MODULE Spec2Model ----------------------------
(***************************************************************************)
(* Model of hbaselines/envs/snn4hrl/envs.py: the gather-environment        *)
(* adapters AntGatherEnv, SwimmerGatherEnv and SnakeGatherEnv.             *)
(*                                                                         *)
(* The adapter owns two fields, step_number and current_context.  The base *)
(* class GatherEnv (rllab) is external: its step and reset are modelled as *)
(* nondeterministic sources of (observation, reward, done, info) tuples,   *)
(* or of an exception.                                                     *)
(***************************************************************************)
EXTENDS Integers, Sequences, FiniteSets

(***************************************************************************)
(* Bounds of the model (not program constants).                            *)
(***************************************************************************)
\* n_bins ranges over 0..MaxBins
MaxBins == 1
\* the robot's own part of the base observation has 0..MaxRobotDim elements
MaxRobotDim == 1
\* base observations are <<1+k, 2+k, ..., L+k>> for k in 0..MaxShift
MaxShift == 1
\* the base reward ranges over 0..MaxReward
MaxReward == 1
\* step may be called up to horizon + MaxExtra times without a reset
MaxExtra == 2

(***************************************************************************)
(* Class attributes.                                                       *)
(***************************************************************************)
Kinds == {"ant", "swimmer", "snake"}

\* HORIZON class attribute of AntGatherEnv / SwimmerGatherEnv / SnakeGatherEnv
HORIZON == [k \in Kinds |-> IF k = "snake" THEN 800 ELSE 500]

\* the `horizon` property: return self.HORIZON
\* (variant: AntGatherEnv.HORIZON, whatever the class of the instance)
horizon_of_base_class(k) == HORIZON["ant"]
horizon(k) == HORIZON[k]

(***************************************************************************)
(* Python values.                                                          *)
(***************************************************************************)
\* None and a held vector are kept apart by a tag
None == [isNone |-> TRUE, val |-> <<>>]
Vec(v) == [isNone |-> FALSE, val |-> v]

Min(a, b) == IF a < b THEN a ELSE b
Max(a, b) == IF a > b THEN a ELSE b

\* Python's normalisation of a slice index i for a sequence of length n
SliceIndex(i, n) == IF i < 0 THEN Max(i + n, 0) ELSE Min(i, n)

\* seq[i:]
SliceFrom(seq, i) == SubSeq(seq, SliceIndex(i, Len(seq)) + 1, Len(seq))
\* seq[:i]
SliceTo(seq, i) == SubSeq(seq, 1, SliceIndex(i, Len(seq)))

\* obs[-2 * self.n_bins:]
Context(obs, nb) == SliceFrom(obs, -(2 * nb))
\* obs[:-2 * self.n_bins]
AgentObs(obs, nb) == SliceTo(obs, -(2 * nb))

\* self.step_number += 1
\* (variant: the counter advances by two)
NextStepNumber_skip(sn) == sn + 2
NextStepNumber(sn) == sn + 1

\* done = done or self.step_number == self.horizon
\* (variants: the comparison made before the increment; the base's done dropped)
StepDone_before_increment(done, sn, h) == done \/ sn - 1 = h
StepDone_horizon_only(done, sn, h) == sn = h
StepDone(done, sn, h) == done \/ sn = h

\* return obs, reward, done, {}
\* (variant: the base's info handed on)
StepReturn_keep_info(obs, reward, done, info) ==
    [obs |-> obs, reward |-> reward, done |-> done, info |-> info]
StepReturn(obs, reward, done, info) ==
    [obs |-> obs, reward |-> reward, done |-> done, info |-> {}]

\* Box(low=-inf, high=inf, shape=(2 * self.n_bins,), dtype=np.float32)
context_space(nb) == [low |-> "-inf", high |-> "inf", shape |-> <<2 * nb>>]

(***************************************************************************)
(* The base environment.                                                   *)
(***************************************************************************)
\* The base observation: the robot's observation followed by n_bins apple
\* readings and n_bins bomb readings.
BaseObsLen(rd, nb) == rd + 2 * nb
BaseObs(rd, nb) ==
    {[i \in 1..BaseObsLen(rd, nb) |-> i + k] : k \in 0..MaxShift}
BaseInfo == {{}, {"outer_rew"}}
BaseReward == 0..MaxReward

NoReturn == [obs |-> <<>>, reward |-> 0, done |-> FALSE, info |-> {}]

(***************************************************************************)
(* State.                                                                  *)
(***************************************************************************)
VARIABLES
    kind,             \* the class of the instance
    n_bins,           \* self.n_bins (set by the base constructor)
    robot_dim,        \* length of the robot's own observation (base env)
    step_number,      \* self.step_number
    current_context,  \* self.current_context
    op,               \* the last call: "init", "step" or "reset"
    raised,           \* whether the last call ended in an exception
    base_ret,         \* what the base's step/reset returned in the last call
    ret,              \* what the last call returned
    steps_done,       \* history: step calls completed since the last reset
    reset_from,       \* history: where the counter stood when reset was called
    was_reset         \* history: whether reset has been called at all

vars == <<kind, n_bins, robot_dim, step_number, current_context, op, raised,
          base_ret, ret, steps_done, reset_from, was_reset>>

config == <<kind, n_bins, robot_dim>>

\* where a counter value stands relative to the horizon
Position(sn, h) ==
    IF sn = 0 THEN "start"
    ELSE IF sn < h THEN "mid"
    ELSE IF sn = h THEN "at"
    ELSE "past"

\* __init__
Init ==
    /\ kind \in Kinds
    /\ n_bins \in 0..MaxBins
    /\ robot_dim \in 0..MaxRobotDim
    /\ step_number = 0
    /\ current_context = None
    /\ op = "init"
    /\ raised = FALSE
    /\ base_ret = NoReturn
    /\ ret = NoReturn
    /\ steps_done = 0
    /\ reset_from = "none"
    /\ was_reset = FALSE

\* step(action), the base step returning normally
Step ==
    /\ step_number < horizon(kind) + MaxExtra
    /\ \E obs \in BaseObs(robot_dim, n_bins), reward \in BaseReward,
          done \in BOOLEAN, info \in BaseInfo :
        /\ base_ret' = [obs |-> obs, reward |-> reward, done |-> done,
                        info |-> info]
        /\ step_number' = NextStepNumber(step_number)
        /\ current_context' = Vec(Context(obs, n_bins))
        /\ ret' = StepReturn(AgentObs(obs, n_bins), reward,
                             StepDone(done, step_number', horizon(kind)),
                             info)
    /\ op' = "step"
    /\ raised' = FALSE
    /\ steps_done' = steps_done + 1
    /\ reset_from' = "none"
    /\ UNCHANGED <<config, was_reset>>

\* step(action), the base step raising: nothing after line 97 runs
StepFail ==
    /\ op' = "step"
    /\ raised' = TRUE
    /\ base_ret' = NoReturn
    /\ ret' = NoReturn
    /\ reset_from' = "none"
    /\ UNCHANGED <<config, step_number, current_context, steps_done, was_reset>>

\* reset(also_wrapped), the base reset returning normally
\* (variant Reset_keep_timer: line 112 left out)
Reset_keep_timer ==
    /\ \E obs \in BaseObs(robot_dim, n_bins) :
        /\ base_ret' = [NoReturn EXCEPT !.obs = obs]
        /\ current_context' = Vec(Context(obs, n_bins))
        /\ ret' = [NoReturn EXCEPT !.obs = AgentObs(obs, n_bins)]
    /\ op' = "reset"
    /\ raised' = FALSE
    /\ steps_done' = 0
    /\ reset_from' = Position(step_number, horizon(kind))
    /\ was_reset' = TRUE
    /\ UNCHANGED <<config, step_number>>
Reset ==
    /\ step_number' = 0
    /\ \E obs \in BaseObs(robot_dim, n_bins) :
        /\ base_ret' = [NoReturn EXCEPT !.obs = obs]
        /\ current_context' = Vec(Context(obs, n_bins))
        /\ ret' = [NoReturn EXCEPT !.obs = AgentObs(obs, n_bins)]
    /\ op' = "reset"
    /\ raised' = FALSE
    /\ steps_done' = 0
    /\ reset_from' = Position(step_number, horizon(kind))
    /\ was_reset' = TRUE
    /\ UNCHANGED config

\* reset(also_wrapped), the base reset raising: only line 112 has run
\* (variant ResetFail_timer_after_base: the timer reset placed after line 114)
ResetFail_timer_after_base ==
    /\ op' = "reset"
    /\ raised' = TRUE
    /\ base_ret' = NoReturn
    /\ ret' = NoReturn
    /\ steps_done' = 0
    /\ reset_from' = Position(step_number, horizon(kind))
    /\ was_reset' = TRUE
    /\ UNCHANGED <<config, step_number, current_context>>
ResetFail ==
    /\ step_number' = 0
    /\ op' = "reset"
    /\ raised' = TRUE
    /\ base_ret' = NoReturn
    /\ ret' = NoReturn
    /\ steps_done' = 0
    /\ reset_from' = Position(step_number, horizon(kind))
    /\ was_reset' = TRUE
    /\ UNCHANGED <<config, current_context>>

Next == Step \/ StepFail \/ Reset \/ ResetFail

Spec == Init /\ [][Next]_vars

(***************************************************************************)
(* Helpers of the properties.                                              *)
(***************************************************************************)
\* the last call was `name` and it returned normally
Completed(name) == op = name /\ ~raised

\* the first n and the last n elements of a sequence
FirstN(seq, n) == SubSeq(seq, 1, n)
LastN(seq, n) == SubSeq(seq, Len(seq) - n + 1, Len(seq))

(***************************************************************************)
(* C1: counting from a reset (or from construction), the horizon-th        *)
(* completed step returns done = TRUE, whatever done the base step         *)
(* returned on that call.                                                  *)
(***************************************************************************)
C1_DoneAtHorizon ==
    (Completed("step") /\ steps_done = horizon(kind)) => ret.done = TRUE

\* reset was called, horizon steps followed, the base said "not done"
C1_Witness ==
    /\ was_reset
    /\ Completed("step")
    /\ steps_done = horizon(kind)
    /\ base_ret.done = FALSE
    /\ ret.done = TRUE

(***************************************************************************)
(* C2: for every n_bins >= 0 (0 included), step and reset return the first *)
(* L - 2*n_bins elements of the base observation and set current_context   *)
(* to its last 2*n_bins elements; the two together are the base            *)
(* observation.                                                            *)
(***************************************************************************)
C2_SplitAt(nb) ==
    (Completed("step") \/ Completed("reset")) =>
        /\ ret.obs = FirstN(base_ret.obs, Len(base_ret.obs) - 2 * nb)
        /\ current_context = Vec(LastN(base_ret.obs, 2 * nb))
        /\ ret.obs \o current_context.val = base_ret.obs

C2_ObservationSplit == C2_SplitAt(n_bins)

(***************************************************************************)
(* C3: a completed reset leaves step_number = 0 whatever it was before,    *)
(* and in the episode that follows the counter meets the horizon exactly   *)
(* on the horizon-th completed step.                                       *)
(***************************************************************************)
C3_ResetZeroesCounter ==
    /\ Completed("reset") => step_number = 0
    /\ (was_reset /\ Completed("step")) =>
           (step_number = horizon(kind) <=> steps_done = horizon(kind))

\* a reset completed after the counter had run past the horizon
C3_Witness ==
    /\ Completed("reset")
    /\ reset_from = "past"
    /\ step_number = 0

(***************************************************************************)
(* C4: step_number is 0 on construction, every completed step adds exactly *)
(* 1, only reset decreases it; it always equals the number of steps        *)
(* completed since the last reset (or since construction).                 *)
(***************************************************************************)
C4_CounterCountsSteps ==
    /\ [](op = "init" => step_number = 0)
    /\ [](step_number = steps_done)
    /\ [][(op' = "step" /\ ~raised') => step_number' = step_number + 1]_vars
    /\ [][op' # "reset" => step_number' >= step_number]_vars

\* an episode of several steps after a reset
C4_Witness ==
    /\ was_reset
    /\ Completed("step")
    /\ step_number = 3
    /\ steps_done = 3

(***************************************************************************)
(* C5: every completed step whose resulting step_number is at or beyond    *)
(* the horizon returns done = TRUE.                                        *)
(***************************************************************************)
C5_DoneFromHorizonOn ==
    (Completed("step") /\ step_number >= horizon(kind)) => ret.done = TRUE

(***************************************************************************)
(* C6: context_space is an unbounded vector of length 2*n_bins; after a    *)
(* completed step or reset current_context has exactly that length, and    *)
(* on construction it is None.                                             *)
(***************************************************************************)
C6_ContextMatchesSpace ==
    /\ context_space(n_bins).shape = <<2 * n_bins>>
    /\ context_space(n_bins).low = "-inf"
    /\ context_space(n_bins).high = "inf"
    /\ op = "init" => current_context = None
    /\ (Completed("step") \/ Completed("reset")) =>
           /\ ~current_context.isNone
           /\ Len(current_context.val) = context_space(n_bins).shape[1]

(***************************************************************************)
(* C7: the horizon is 500 for ant and swimmer and 800 for snake, and       *)
(* `horizon` returns the constant of the instance's class: a snake whose   *)
(* base does not report done is not done on steps 1..799 and is done on    *)
(* step 800; ant and swimmer are done on step 500.                         *)
(***************************************************************************)
C7_HorizonPerClass ==
    /\ HORIZON["ant"] = 500 /\ HORIZON["swimmer"] = 500
    /\ HORIZON["snake"] = 800
    /\ (Completed("step") /\ kind = "snake") =>
           /\ (steps_done \in 1..799 /\ ~base_ret.done) => ~ret.done
           /\ steps_done = 800 => ret.done
    /\ (Completed("step") /\ kind \in {"ant", "swimmer"}) =>
           (steps_done = 500 => ret.done)

\* a snake on its 500th step after a reset, still running
C7_Witness ==
    /\ kind = "snake"
    /\ was_reset
    /\ Completed("step")
    /\ steps_done = 500
    /\ ~ret.done

(***************************************************************************)
(* C8: step returns done = TRUE exactly when the base step returned done   *)
(* = TRUE or the incremented step_number equals the horizon.               *)
(***************************************************************************)
C8_DoneIffBaseOrHorizon ==
    Completed("step") =>
        /\ ret.done <=> (base_ret.done \/ step_number = horizon(kind))
        /\ base_ret.done => ret.done
        /\ step_number # horizon(kind) => ret.done = base_ret.done

\* the base ends the episode before the horizon
C8_Witness ==
    /\ Completed("step")
    /\ base_ret.done
    /\ step_number < horizon(kind)
    /\ ret.done

(***************************************************************************)
(* C9: no call changes n_bins or the horizon; step returns the base's      *)
(* reward unchanged and an empty info, whatever info the base returned.    *)
(***************************************************************************)
C9_FrameAndPassThrough ==
    /\ [][/\ n_bins' = n_bins
          /\ kind' = kind
          /\ horizon(kind') = horizon(kind)]_vars
    /\ [](Completed("step") =>
            /\ ret.reward = base_ret.reward
            /\ ret.info = {})

\* the base returned a reward and a non-empty info
C9_Witness ==
    /\ Completed("step")
    /\ base_ret.reward = MaxReward
    /\ ret.reward = MaxReward
    /\ base_ret.info # {}
    /\ ret.info = {}

(***************************************************************************)
(* C10: a failed base step leaves step_number and current_context as they  *)
(* were; a failed base reset leaves step_number = 0 and current_context as *)
(* it was.  Either way the call raises.                                    *)
(***************************************************************************)
C10_FailureFollowsCallOrder ==
    /\ [][(op' = "step" /\ raised') =>
            /\ step_number' = step_number
            /\ current_context' = current_context]_vars
    /\ [][(op' = "reset" /\ raised') =>
            /\ step_number' = 0
            /\ current_context' = current_context]_vars
    /\ [](raised => ret = NoReturn)

\* a reset failed in mid-episode: the counter is zeroed, the context is old
C10_Witness ==
    /\ op = "reset"
    /\ raised
    /\ reset_from = "mid"
    /\ step_number = 0
    /\ ~current_context.isNone
    /\ Len(current_context.val) > 0

=============================================================================
